---- MODULE Spec2Model ----
(***************************************************************************)
(* TelemetryRelay (assetto-corsa-apps/TelemetryRelay/app.py): an Assetto   *)
(* Corsa plugin whose per-frame hook acUpdate publishes one UDP telemetry  *)
(* record at most every SEND_INTERVAL.                                     *)
(*                                                                         *)
(* Units.  Times (time.time(), _last_send, SEND_INTERVAL, lap times) are   *)
(* whole milliseconds; speed and world coordinates are tenths; throttle    *)
(* and brake are thousandths of the pedal travel.  Text is a sequence of   *)
(* one-character strings.                                                  *)
(***************************************************************************)
EXTENDS Integers, Sequences, FiniteSets

VARIABLES
    clock,       \* the reading time.time() returns when called now
    _last_send,  \* app.py:14
    _label,      \* app.py:15: None, or the handle ac.addLabel returned
    labelText,   \* the text the host shows in the status label
    op,          \* the operation that led to this state
    inp,         \* what the host's accessors answer: to the acUpdate that
                 \* led to this state, or at load to the one that follows
    out,         \* what the acUpdate that led to this state did
    attempts     \* history: the clock readings of the ticks that passed the gate

vars == <<clock, _last_send, _label, labelText, op, inp, out, attempts>>

----------------------------------------------------------------------------
(* Bounds of the model *)

\* the reading of time.time() when the plugin is loaded
BootClock == 1000
\* how long after load the clock is followed
Horizon == 250

MaxClock == BootClock + Horizon

\* by how much the wall clock moves between two host callbacks
ClockSteps == {50, 99, 100}
\* the earlier readings an adjustment sets the wall clock back to
ClockSetbacks == {BootClock, BootClock + 50}

\* how many of the host's answers differ from the end-to-end scenario
MaxChanged == 2
\* the longest last lap, in milliseconds
MaxLapMs == 126000

----------------------------------------------------------------------------
(* Program constants *)

SEND_INTERVAL == 100

InitialLastSend == 0

----------------------------------------------------------------------------
(* Values *)

Min(a, b) == IF a < b THEN a ELSE b

\* int(): truncation toward zero of n/d
Trunc(n, d) == IF n >= 0 THEN n \div d ELSE -((-n) \div d)

\* what a name accessor of the host answers: text, or a value that is no text
\* (the host's -1, a bytes object), or an exception
Text(s) == [k |-> "text", s |-> s]
NonText(kind) == [k |-> kind, s |-> <<>>]
NameRaises == [k |-> "raise", s |-> <<>>]

\* what ac.getCarState answers for a scalar: a number, None, or an exception
Num(n) == [k |-> "num", n |-> n]
NumNone == [k |-> "none", n |-> 0]
NumRaises == [k |-> "raise", n |-> 0]

\* what ac.getCarState answers for the world position
Vec(v) == [k |-> "vec", v |-> v]
VecNone == [k |-> "none", v |-> <<>>]
VecRaises == [k |-> "raise", v |-> <<>>]

\* the values of the record's fields as json.dumps writes them
JStr(s) == [t |-> "str", s |-> s, n |-> 0]
JNum(n) == [t |-> "num", s |-> <<>>, n |-> n]

\* str.lower() on the letters the model's names use
LowerChar(c) ==
    CASE c = "M" -> "m"
      [] c = "S" -> "s"
      [] c = "A" -> "a"
      [] c = "F" -> "f"
      [] OTHER -> c

Lower(s) == [j \in 1..Len(s) |-> LowerChar(s[j])]

Digit(d) == <<"0", "1", "2", "3", "4", "5", "6", "7", "8", "9">>[d + 1]

\* "%d" of a natural number
RECURSIVE Dec(_)
Dec(n) == IF n < 10 THEN <<Digit(n)>> ELSE Dec(n \div 10) \o <<Digit(n % 10)>>

\* a '0' flag with a minimum field width
RECURSIVE ZeroPad(_, _)
ZeroPad(s, width) == IF Len(s) >= width THEN s ELSE ZeroPad(<<"0">> \o s, width)

\* "%06.3f" of a non-negative number of milliseconds, read as seconds
Fixed3(ms) == ZeroPad(Dec(ms \div 1000) \o <<".">> \o ZeroPad(Dec(ms % 1000), 3), 6)

----------------------------------------------------------------------------
(* The program *)

\* _format_lap_time with `seconds < 0` for `seconds <= 0`
FormatLapTimeOfZero(seconds) ==
    IF seconds.k = "none" \/ seconds.n < 0
    THEN <<>>
    ELSE LET minutes == seconds.n \div 60000
             remainder == seconds.n - minutes * 60000
         IN  Dec(minutes) \o <<":">> \o Fixed3(remainder)

\* app.py:18-23.  seconds is what getCarState answered for LastLap.
_format_lap_time(seconds) ==
    IF seconds.k = "none" \/ seconds.n <= 0
    THEN <<>>
    ELSE LET minutes == seconds.n \div 60000
             remainder == seconds.n - minutes * 60000
         IN  Dec(minutes) \o <<":">> \o Fixed3(remainder)

\* the wrappers without their try/except
TrackNameUnwrapped(i) == i.track

CarNameUnwrapped(i) == i.car

\* app.py:26-44: the value each wrapper returns (an answer of kind "raise"
\* stands for an exception that leaves the wrapper)
_get_track_name(i) == IF i.track.k = "raise" THEN Text(<<>>) ELSE i.track

_get_driver_name(i) == IF i.driver.k = "raise" THEN Text(<<>>) ELSE i.driver

_get_car_name(i) == IF i.car.k = "raise" THEN Text(<<>>) ELSE i.car

\* how json.dumps writes a name the record holds as returned: text as a
\* string, the host's -1 as a number
NameJson(v) == IF v.k = "text" THEN JStr(v.s) ELSE JNum(-1)

\* the gate one millisecond short, with <= for <, and with its operands swapped
GateClosedShort(now, last) == now - last < SEND_INTERVAL - 1

GateClosedInclusive(now, last) == now - last <= SEND_INTERVAL

GateClosedSwapped(now, last) == last - now < SEND_INTERVAL

\* app.py:62: the gate, TRUE when the tick returns at once
GateClosed(now, last) == now - last < SEND_INTERVAL

\* the stamp taken only when the publish succeeded
StampOnSuccess(now, last, ok) == IF ok THEN now ELSE last

\* app.py:64: the stamp, ok being whether the publish that follows succeeds
Stamp(now, last, ok) == now

\* the steps of the try block (app.py:67-90) that may raise, in the order in
\* which Python evaluates them
BodySteps ==
    <<"speed", "throttle", "brake", "lap", "last_lap", "pos", "len",
      "track", "lower", "driver", "car", "dumps", "sendto">>

\* the steps that call an accessor of the host
AccessorSteps ==
    {"speed", "throttle", "brake", "lap", "last_lap", "pos", "track", "driver", "car"}

PerCarSteps == {"speed", "throttle", "brake", "lap", "last_lap", "pos"}

\* whether step s raises into the try block, given the host's answers i
StepRaises(i, s) ==
    CASE s \in PerCarSteps -> i[s].k = "raise"                   \* 67-72: not wrapped
      [] s = "len"    -> i.pos.k = "none"                        \* 73: len(None)
      [] s = "lower"  -> _get_track_name(i).k # "text"           \* 77: no .lower()
      [] s = "dumps"  -> "bytes" \in {_get_driver_name(i).k, _get_car_name(i).k}
      [] s = "sendto" -> i.sendto = "raise"                      \* 90: OSError
      [] s = "track"  -> _get_track_name(i).k = "raise"          \* 26-44: what the
      [] s = "driver" -> _get_driver_name(i).k = "raise"         \* wrappers let
      [] s = "car"    -> _get_car_name(i).k = "raise"            \* through

\* the index in BodySteps of the first step that raises, Len(BodySteps) + 1
\* when none does
FirstRaise(i) ==
    LET bad == {j \in 1..Len(BodySteps) : StepRaises(i, BodySteps[j])}
    IN  IF bad = {} THEN Len(BodySteps) + 1
        ELSE CHOOSE j \in bad : \A m \in bad : j <= m

\* the accessors the try block calls, in order
Reads(i) ==
    LET IsAccessor(s) == s \in AccessorSteps
    IN  SelectSeq(SubSeq(BodySteps, 1, Min(FirstRaise(i), Len(BodySteps))), IsAccessor)

\* app.py:73-74
PosX(pos) == IF Len(pos) > 0 THEN pos[1] ELSE 0

PosY(pos) == IF Len(pos) > 2 THEN pos[3] ELSE 0

\* app.py:84-85: int((pedal or 0) * 100), pedal in thousandths
Percent(pedal) == Trunc((IF pedal.k = "none" THEN 0 ELSE pedal.n) * 100, 1000)

\* app.py:76-88, for answers with which no step before json.dumps raises
Payload(i) ==
    [track    |-> JStr(Lower(_get_track_name(i).s)),
     driver   |-> NameJson(_get_driver_name(i)),
     car      |-> NameJson(_get_car_name(i)),
     lap      |-> JNum(IF i.lap.k # "none" THEN i.lap.n ELSE 0),
     lastLap  |-> JStr(_format_lap_time(i.last_lap)),
     delta    |-> JStr(<<>>),
     speed    |-> JNum(IF i.speed.k # "none" THEN Trunc(i.speed.n, 10) ELSE 0),
     throttle |-> JNum(Percent(i.throttle)),
     brake    |-> JNum(Percent(i.brake)),
     x        |-> JNum(PosX(i.pos.v)),
     y        |-> JNum(PosY(i.pos.v))]

\* _label: None, or the control id ac.addLabel returned
NoLabel == [k |-> "none", id |-> 0]
Handle(h) == [k |-> "id", id |-> h]
AddLabelResults == {Handle(1)}

\* whether acMain has made the label
LabelExists(l) == l.k = "id"

\* app.py:92: `if _label:`
Truthy(l) == l.k # "none" /\ l.id # 0

\* the label's text: none without a label, the text of app.py:54, or the
\* text of app.py:93 for the step that raised
NoText == [kind |-> "none", err |-> ""]
InfoText == [kind |-> "info", err |-> ""]
ErrorText(step) == [kind |-> "error", err |-> step]

\* a handler that swallows the error
HandlerSilent(l, raised) == FALSE

\* app.py:91-93: whether the handler calls ac.setText
HandlerSetsText(l, raised) == raised /\ Truthy(l)

----------------------------------------------------------------------------
(* The host: what its accessors may answer in one tick *)

Monza == <<"M", "o", "n", "z", "a">>
Spa == <<"S", "p", "a">>
Ayrton == <<"A", "y", "r", "t", "o", "n">>
F1_2020 == <<"F", "1", "_", "2", "0", "2", "0">>

\* the end-to-end scenario: every accessor answers, every call succeeds
BaseInput ==
    [track |-> Text(Monza), driver |-> Text(Ayrton), car |-> Text(F1_2020),
     speed |-> Num(2107), throttle |-> Num(800), brake |-> Num(0),
     lap |-> Num(3), last_lap |-> Num(91123), pos |-> Vec(<<100, 0, 200>>),
     sendto |-> "ok", setText |-> "ok"]

\* the answers the model draws from, per accessor or call
Answers ==
    [track    |-> {Text(Monza), Text(Spa), NameRaises, NonText("int")},
     driver   |-> {Text(Ayrton), NameRaises, NonText("int"), NonText("bytes")},
     car      |-> {Text(F1_2020), NameRaises, NonText("int"), NonText("bytes")},
     speed    |-> {Num(2107), Num(0), NumNone, NumRaises},
     throttle |-> {Num(800), Num(500), Num(1000), NumNone, NumRaises},
     brake    |-> {Num(0), Num(500), Num(1000), NumNone, NumRaises},
     lap      |-> {Num(3), NumNone, NumRaises},
     last_lap |-> {Num(91123), Num(65250), Num(125400), Num(0), Num(-1),
                   NumNone, NumRaises},
     pos      |-> {Vec(<<100, 0, 200>>), Vec(<<10, 990, 20>>), Vec(<<10, 990>>),
                   Vec(<<50>>), Vec(<<>>), VecNone, VecRaises},
     sendto   |-> {"ok", "raise"},
     setText  |-> {"ok", "raise"}]

Fields == DOMAIN Answers

\* the scenario with at most k answers changed
RECURSIVE Changed(_)
Changed(k) ==
    IF k = 0 THEN {BaseInput}
    ELSE LET fewer == Changed(k - 1)
         IN  fewer \cup UNION {{[i EXCEPT ![f] = a] : a \in Answers[f]} :
                                  i \in fewer, f \in Fields}

\* the answers a single tick is run on
PublishInputs == Changed(MaxChanged)

\* the scenario with every last-lap time up to MaxLapMs
LapInputs ==
    {[BaseInput EXCEPT !.last_lap = l] :
        l \in {NumNone} \cup {Num(n) : n \in -2..MaxLapMs}}

\* the answers the ticks of a run of the plugin are given
TickInputs ==
    {BaseInput,
     [BaseInput EXCEPT !.car = NameRaises],
     [BaseInput EXCEPT !.speed = NumRaises],
     [BaseInput EXCEPT !.sendto = "raise"],
     [BaseInput EXCEPT !.sendto = "raise", !.setText = "raise"]}

\* what a tick that has not run did
NoOut ==
    [gate |-> "none", reads |-> <<>>, sendto |-> 0, sent |-> <<>>,
     setText |-> 0, err |-> "", escaped |-> FALSE]

----------------------------------------------------------------------------
(* Operations *)

Init ==
    /\ clock = BootClock
    /\ _last_send = InitialLastSend
    /\ _label = NoLabel
    /\ labelText = NoText
    /\ op = "load"
    /\ inp = BaseInput
    /\ out = NoOut
    /\ attempts = <<>>

\* real time passes between two callbacks
ClockAdvance ==
    /\ clock < MaxClock
    /\ \E d \in ClockSteps : clock' = Min(clock + d, MaxClock)
    /\ op' = "clock" /\ inp' = BaseInput /\ out' = NoOut
    /\ UNCHANGED <<_last_send, _label, labelText, attempts>>

\* the wall clock is set back (time.time() is not monotonic)
ClockSetBack ==
    /\ \E r \in ClockSetbacks : r < clock /\ clock' = r
    /\ op' = "clock" /\ inp' = BaseInput /\ out' = NoOut
    /\ UNCHANGED <<_last_send, _label, labelText, attempts>>

\* app.py:47-56, called once by the host
acMain ==
    /\ _label = NoLabel
    /\ \E l \in AddLabelResults :
          /\ _label' = l
          /\ labelText' = IF LabelExists(l) THEN InfoText ELSE NoText
    /\ op' = "acMain" /\ inp' = BaseInput /\ out' = NoOut
    /\ UNCHANGED <<clock, _last_send, attempts>>

\* app.py:59-93 with the host answering i
acUpdate(i) ==
    LET now == clock
        first == FirstRaise(i)
        raised == first <= Len(BodySteps)
        err == IF raised THEN BodySteps[first] ELSE ""
        calls == HandlerSetsText(_label, raised)
        shown == calls /\ i.setText = "ok" /\ LabelExists(_label)
    IN  /\ op' = "acUpdate"
        /\ inp' = i
        /\ IF GateClosed(now, _last_send)
           THEN /\ out' = [NoOut EXCEPT !.gate = "closed"]
                /\ UNCHANGED <<_last_send, labelText, attempts>>
           ELSE /\ _last_send' = Stamp(now, _last_send, ~raised)
                /\ attempts' = Append(attempts, now)
                /\ out' = [gate    |-> "open",
                           reads   |-> Reads(i),
                           sendto  |-> IF first >= Len(BodySteps) THEN 1 ELSE 0,
                           sent    |-> IF raised THEN <<>> ELSE <<Payload(i)>>,
                           setText |-> IF calls THEN 1 ELSE 0,
                           err     |-> err,
                           escaped |-> calls /\ i.setText = "raise"]
                /\ labelText' = IF shown THEN ErrorText(err) ELSE labelText
        /\ UNCHANGED <<clock, _label>>

Tick == \E i \in TickInputs : acUpdate(i)

Next == ClockAdvance \/ ClockSetBack \/ acMain \/ Tick

Spec == Init /\ [][Next]_vars

\* the host keeps calling acUpdate while a steady clock advances
LiveNext == ClockAdvance \/ acMain \/ Tick

LiveSpec == Init /\ [][LiveNext]_vars /\ WF_vars(ClockAdvance) /\ WF_vars(Tick)

\* one tick, the first after load, for every answer of the host, before and
\* after acMain has made the label
PublishInit ==
    /\ clock = BootClock
    /\ _last_send = InitialLastSend
    /\ \E l \in {NoLabel} \cup AddLabelResults :
          /\ _label = l
          /\ labelText = IF LabelExists(l) THEN InfoText ELSE NoText
    /\ op = "load"
    /\ inp \in PublishInputs
    /\ out = NoOut
    /\ attempts = <<>>

Publish == op = "load" /\ acUpdate(inp)

PublishSpec == PublishInit /\ [][Publish]_vars

\* one tick for every last-lap time
FormatInit ==
    /\ clock = BootClock
    /\ _last_send = InitialLastSend
    /\ _label = NoLabel
    /\ labelText = NoText
    /\ op = "load"
    /\ inp \in LapInputs
    /\ out = NoOut
    /\ attempts = <<>>

FormatSpec == FormatInit /\ [][Publish]_vars

----------------------------------------------------------------------------
(* Properties.  A step of acUpdate is one with op' = "acUpdate"; the state  *)
(* it leads to has op = "acUpdate", the answers in inp and the effects in   *)
(* out.                                                                     *)

\* the most publishing ticks the followed stretch of time has room for
MaxAttempts == Horizon \div SEND_INTERVAL + 1

\* no accessor raises, every accessor answers a value of its type, and the
\* send succeeds (a scalar may be None)
Healthy(i) ==
    /\ \A f \in AccessorSteps : i[f].k # "raise"
    /\ \A f \in {"track", "driver", "car"} : i[f].k = "text"
    /\ i.pos.k = "vec"
    /\ i.sendto = "ok"

(* C1: any two ticks that pass the gate and attempt a publish have clock
   readings at least SEND_INTERVAL apart, whether the earlier attempt
   succeeded or failed, and no tick calls sendto more than once.  (Checked
   for every run, those with a clock that is set back included.) *)
C1_AttemptsSpaced ==
    /\ \A a, b \in 1..Len(attempts) :
          a < b => attempts[b] - attempts[a] >= SEND_INTERVAL
    /\ out.sendto <= 1

\* a publish is attempted exactly SEND_INTERVAL after one before it, and its
\* send fails
C1_Witness ==
    /\ Len(attempts) >= 2
    /\ attempts[2] - attempts[1] = SEND_INTERVAL
    /\ op = "acUpdate" /\ out.gate = "open" /\ out.err = "sendto"

(* C2: a tick in which now - _last_send is less than SEND_INTERVAL sends no
   datagram and mutates no state: _last_send and the label's text are
   unchanged, and no accessor of the host is read. *)
C2_GatedTickIsInert ==
    [][(op' = "acUpdate" /\ clock - _last_send < SEND_INTERVAL)
         => /\ _last_send' = _last_send
            /\ labelText' = labelText
            /\ _label' = _label
            /\ attempts' = attempts
            /\ out'.sent = <<>> /\ out'.sendto = 0
            /\ out'.reads = <<>> /\ out'.setText = 0]_vars

\* a tick one millisecond before the interval has elapsed
C2_Witness ==
    /\ op = "acUpdate" /\ out.gate = "closed"
    /\ clock - _last_send = SEND_INTERVAL - 1

(* C3: a tick in which now - _last_send is at least SEND_INTERVAL (exactly
   SEND_INTERVAL included) leaves _last_send equal to its now, and sends
   exactly one datagram when no step fails. *)
C3_OpenTickPublishes ==
    [][(op' = "acUpdate" /\ clock - _last_send >= SEND_INTERVAL)
         => /\ _last_send' = clock
            /\ Healthy(inp') => Len(out'.sent) = 1 /\ out'.sendto = 1]_vars

\* a tick exactly SEND_INTERVAL after the stamp, which sends its datagram
C3_Witness ==
    /\ op = "acUpdate" /\ Len(out.sent) = 1 /\ _last_send = clock
    /\ Len(attempts) >= 2
    /\ attempts[Len(attempts)] - attempts[Len(attempts) - 1] = SEND_INTERVAL

(* C10: the gate never closes for good.  The first tick after load attempts
   a publish, and while the host keeps calling acUpdate and the clock keeps
   advancing (here: as long as the followed stretch of time reaches
   SEND_INTERVAL past the last stamp), another attempt follows every
   attempt, failed or not. *)
C10_GateReopens ==
    /\ [](op = "acUpdate" => attempts # <<>>)
    /\ \A n \in 0..MaxAttempts :
          (Len(attempts) = n /\ _last_send + SEND_INTERVAL <= MaxClock)
             ~> (Len(attempts) > n)

\* a third attempt, made after a failed one
C10_Witness ==
    /\ Len(attempts) = 3
    /\ op = "acUpdate" /\ out.gate = "open" /\ out.err # ""

NameSteps == {"track", "driver", "car"}

\* every step other than the read of accessor f succeeds: no other accessor
\* raises, the other names are text, the position is a vector, the send works
OthersSucceed(i, f) ==
    /\ \A g \in AccessorSteps \ {f} : i[g].k # "raise"
    /\ \A g \in NameSteps \ {f} : i[g].k = "text"
    /\ f # "pos" => i.pos.k = "vec"
    /\ i.sendto = "ok"

\* the fields of the record other than the one accessor f feeds
OtherFields(f) ==
    {"track", "driver", "car", "lap", "lastLap", "delta", "speed", "throttle",
     "brake", "x", "y"} \ {f}

(* C4: acUpdate never lets an exception escape to the host, whichever step
   fails, the label update made while handling an error included. *)
C4_NothingEscapes == op = "acUpdate" => ~out.escaped

(* C5: when a tick passes the gate and a name accessor (track, driver, car)
   raises while every other step succeeds, the datagram is still sent, the
   accessor's field is the empty string, the other fields are what they are
   when the accessor answers, and the label's text is unchanged. *)
C5_NameFaultStillSends ==
    [][\A f \in NameSteps :
         (/\ op' = "acUpdate" /\ clock - _last_send >= SEND_INTERVAL
          /\ inp'[f].k = "raise" /\ OthersSucceed(inp', f))
         => /\ Len(out'.sent) = 1
            /\ out'.sent[1][f] = JStr(<<>>)
            /\ \A g \in OtherFields(f) :
                  out'.sent[1][g] = Payload([inp' EXCEPT ![f] = BaseInput[f]])[g]
            /\ labelText' = labelText]_vars

\* the car-name accessor raised, the label exists, the datagram went out
C5_Witness ==
    /\ op = "acUpdate" /\ inp.car.k = "raise" /\ OthersSucceed(inp, "car")
    /\ Len(out.sent) = 1 /\ out.sent[1].car = JStr(<<>>)
    /\ labelText = InfoText

\* what the record holds for an accessor whose read is made up for
DefaultOf(f) == IF f \in NameSteps THEN JStr(<<>>) ELSE JNum(0)

\* the fields of the record accessor f feeds
FieldsOf(f) ==
    CASE f = "last_lap" -> {"lastLap"}
      [] f = "pos" -> {"x", "y"}
      [] OTHER -> {f}

(* C6, as claimed: for each of the nine accessor reads of a publishing tick,
   if that read raises, the record is still built and sent with that field
   empty (text) or 0 (number). *)
C6_EveryReadRecovered ==
    \A f \in AccessorSteps :
      (op = "acUpdate" /\ out.gate = "open"
       /\ inp[f].k = "raise" /\ OthersSucceed(inp, f))
      => /\ Len(out.sent) = 1
         /\ \A g \in FieldsOf(f) \ {"lastLap"} : out.sent[1][g] = DefaultOf(f)
         /\ f = "last_lap" => out.sent[1].lastLap = JStr(<<>>)

(* C6, amended: for each of the three name reads (track, driver, car), if
   that read raises, the record is still built and sent with that field
   empty; if one of the six per-car reads (speed, throttle, brake, lap count,
   last lap, world position) raises, no datagram is sent. *)
C6_NameReadsRecovered ==
    /\ \A f \in NameSteps :
         (op = "acUpdate" /\ out.gate = "open"
          /\ inp[f].k = "raise" /\ OthersSucceed(inp, f))
         => Len(out.sent) = 1 /\ out.sent[1][f] = JStr(<<>>)
    /\ \A f \in PerCarSteps :
         (op = "acUpdate" /\ out.gate = "open" /\ inp[f].k = "raise")
         => out.sent = <<>> /\ out.sendto = 0

\* the track-name accessor raised and the datagram went out with no track
C6_Witness ==
    /\ op = "acUpdate" /\ inp.track.k = "raise" /\ OthersSucceed(inp, "track")
    /\ Len(out.sent) = 1 /\ out.sent[1].track = JStr(<<>>)

\* the read of f yields an absent value: None, or for the position also a
\* vector too short to hold the component c (1: x, 3: y)
Absent(i, f, c) ==
    IF f = "pos" THEN i.pos.k = "none" \/ (i.pos.k = "vec" /\ Len(i.pos.v) < c)
    ELSE i[f].k = "none"

(* C7: on a publishing tick, for each of lap, speed, throttle, brake and the
   position (x, y), if the accessor returns None (or, for the position, a
   vector too short to hold the component), the datagram is sent with that
   field equal to 0. *)
C7_AbsentReadsAreZero ==
    (op = "acUpdate" /\ out.gate = "open")
    => /\ \A f \in {"lap", "speed", "throttle", "brake"} :
            (Absent(inp, f, 0) /\ OthersSucceed(inp, f))
            => Len(out.sent) = 1 /\ out.sent[1][f] = JNum(0)
       /\ (Absent(inp, "pos", 1) /\ OthersSucceed(inp, "pos"))
            => Len(out.sent) = 1 /\ out.sent[1].x = JNum(0)
       /\ (Absent(inp, "pos", 3) /\ OthersSucceed(inp, "pos"))
            => Len(out.sent) = 1 /\ out.sent[1].y = JNum(0)

\* a step of reading per-car state, building, serializing or sending raises
ListedStepRaises(i) ==
    \/ \E f \in PerCarSteps : i[f].k = "raise"
    \/ i.pos.k = "none"
    \/ i.track.k \in {"int", "bytes"}
    \/ "bytes" \in {i.driver.k, i.car.k}
    \/ i.sendto = "raise"

(* C8: when a tick passes the gate and a step of reading per-car state,
   building, serializing or sending the record raises, the tick produces no
   datagram; if the label exists its text becomes the error message (the
   host taking the new text), and if it does not exist nothing other than
   _last_send changes. *)
C8_FailedTickShowsError ==
    [][(/\ op' = "acUpdate" /\ clock - _last_send >= SEND_INTERVAL
        /\ ListedStepRaises(inp'))
        => /\ out'.sent = <<>>
           /\ (LabelExists(_label) /\ inp'.setText = "ok")
                => /\ labelText'.kind = "error"
                   /\ StepRaises(inp', labelText'.err)
           /\ ~LabelExists(_label)
                => labelText' = labelText /\ _label' = _label /\ clock' = clock]_vars

\* the send failed and the existing label shows it
C8_Witness ==
    /\ op = "acUpdate" /\ inp.sendto = "raise" /\ out.sent = <<>>
    /\ LabelExists(_label) /\ labelText = ErrorText("sendto")

\* a text read back as a number: the value of its digits, -1 when a
\* character is no digit or the text is empty
DigitChars == {"0", "1", "2", "3", "4", "5", "6", "7", "8", "9"}

DigitValue(c) == CHOOSE d \in 0..9 : Digit(d) = c

RECURSIVE Parsed(_)
Parsed(s) ==
    IF s = <<>> \/ \E j \in 1..Len(s) : s[j] \notin DigitChars THEN -1
    ELSE IF Len(s) = 1 THEN DigitValue(s[1])
    ELSE 10 * Parsed(SubSeq(s, 1, Len(s) - 1)) + DigitValue(s[Len(s)])

\* text s reads "M:SS.mmm": minutes without padding, two digits of seconds
\* below 60, three digits of milliseconds, ms milliseconds in all
ReadsAsLapTime(s, ms) ==
    /\ Len(s) >= 8
    /\ LET n == Len(s)
           M == SubSeq(s, 1, n - 7)
           SS == SubSeq(s, n - 5, n - 4)
           mmm == SubSeq(s, n - 2, n)
       IN  /\ s[n - 6] = ":" /\ s[n - 3] = "."
           /\ Parsed(M) >= 0 /\ (Len(M) > 1 => M[1] # "0")
           /\ Parsed(SS) >= 0 /\ Parsed(SS) < 60
           /\ Parsed(mmm) >= 0
           /\ Parsed(M) * 60000 + Parsed(SS) * 1000 + Parsed(mmm) = ms

(* C9: _format_lap_time returns the empty string for an absent (None) or
   non-positive input, and for every positive input of whole milliseconds
   "M:SS.mmm": the whole minutes without padding, the remaining whole seconds
   zero-padded to two digits and below 60, the milliseconds zero-padded to
   three digits; 65.25 gives "1:05.250" and 125.4 gives "2:05.400". *)
C9_LapTimeFormat ==
    (op = "acUpdate" /\ Len(out.sent) = 1)
    => LET l == inp.last_lap
           s == out.sent[1].lastLap.s
       IN  /\ out.sent[1].lastLap.t = "str"
           /\ (l.k = "none" \/ l.n <= 0) => s = <<>>
           /\ (l.k = "num" /\ l.n > 0) => ReadsAsLapTime(s, l.n)
           /\ l = Num(65250) => s = <<"1", ":", "0", "5", ".", "2", "5", "0">>
           /\ l = Num(125400) => s = <<"2", ":", "0", "5", ".", "4", "0", "0">>

\* 125.4 s was formatted
C9_Witness ==
    /\ op = "acUpdate" /\ inp.last_lap = Num(125400) /\ Len(out.sent) = 1
    /\ out.sent[1].lastLap.s = <<"2", ":", "0", "5", ".", "4", "0", "0">>

====
